---------------------------- MODULE Spec2Model ----------------------------
(***************************************************************************)
(* Model of src/main.rs: the paragraph chunker of main(), the retry loop   *)
(* of translate_chunk() and the translation loop / output of main().       *)
(*                                                                         *)
(* Text is modelled at the byte level, as Rust's str::len, slicing,        *)
(* split_at and rfind work on byte offsets.  A string is a sequence of     *)
(* bytes; the characters are                                               *)
(*    "a"        a one-byte letter                                         *)
(*    "SP"       the space U+0020 (one byte)                               *)
(*    "NL"       the newline U+000A (one byte, whitespace, not a space)    *)
(*    "E1","E2"  the lead and continuation byte of one two-byte character  *)
(***************************************************************************)
EXTENDS Integers, Sequences, FiniteSets, TLC

VARIABLES
    MAX_CHUNK_SIZE,     \* main.rs:8, the byte ceiling of a chunk
    output_file,        \* main.rs:20, args.output_file is Some(..)
    content,            \* main.rs:129, the normalised file content
    paragraphs,         \* main.rs:136
    pidx,               \* main.rs:140, position of `for paragraph in paragraphs`
    chunks,             \* main.rs:137
    current_chunk,      \* main.rs:138
    remaining,          \* main.rs:150
    pc,                 \* control position inside main()
    cidx,               \* main.rs:198, position of `for chunk in chunks`
    translated_chunks,  \* main.rs:189
    bar_pos,            \* main.rs:210, the progress bar position
    attempt,            \* main.rs:60, loop variable of translate_chunk
    last_error,         \* main.rs:58
    responses,          \* the results the transport gave to this call's attempts
    events,             \* sleeps and POSTs of the current loop iteration, in order
    requested,          \* chunk positions for which a POST was sent
    answered,           \* the texts the service's decoded answers carried, per chunk
    call_result,        \* main.rs:201-208, what translate_chunk returned
    out,                \* what was written to the output file or printed
    result              \* the Result main() returns

vars == <<MAX_CHUNK_SIZE, output_file, content, paragraphs, pidx, chunks,
          current_chunk, remaining, pc, cidx, translated_chunks, bar_pos,
          attempt, last_error, responses, events, requested, answered,
          call_result, out, result>>

chunkVars == <<paragraphs, pidx, chunks, current_chunk, remaining>>
callVars == <<attempt, last_error, responses, call_result>>
loopVars == <<cidx, translated_chunks, bar_pos, events, requested, answered>>
endVars == <<out, result>>
argVars == <<MAX_CHUNK_SIZE, output_file, content>>

(***************************************************************************)
(* Bounds of the model.                                                    *)
(***************************************************************************)
MaxChars == 6           \* characters of a document given to the chunker alone
MaxDocChars == 2        \* characters of a document run through the whole pipeline
MaxChunkSizeBound == 4  \* MAX_CHUNK_SIZE ranges over 1..MaxChunkSizeBound

(***************************************************************************)
(* Strings.                                                                *)
(***************************************************************************)
Chars == {"a", "SP", "NL", "E"}

\* The UTF-8 encoding of one character.
Utf8Char(c) == IF c = "E" THEN <<"E1", "E2">> ELSE <<c>>

RECURSIVE Utf8(_)
\* The UTF-8 encoding of a character sequence: what a String holds.
Utf8(cs) == IF cs = <<>> THEN <<>> ELSE Utf8Char(Head(cs)) \o Utf8(Tail(cs))

\* char::is_whitespace on the characters of the model (all one byte long).
IsWhitespace(b) == b \in {"SP", "NL"}

\* The paragraph delimiter "\n\n".
Delim == <<"NL", "NL">>

Drop(s, n) == SubSeq(s, n + 1, Len(s))
Take(s, n) == SubSeq(s, 1, n)

RECURSIVE SplitFrom(_, _)
\* str::split("\n\n"): leftmost, non-overlapping matches; cur is the piece
\* being read.
SplitFrom(s, cur) ==
    IF s = <<>> THEN <<cur>>
    ELSE IF Len(s) >= 2 /\ Take(s, 2) = Delim
         THEN <<cur>> \o SplitFrom(Drop(s, 2), <<>>)
         ELSE SplitFrom(Tail(s), Append(cur, Head(s)))

Split(s) == SplitFrom(s, <<>>)

\* p.trim().is_empty()
TrimIsEmpty(p) == \A i \in 1..Len(p) : IsWhitespace(p[i])

\* content.split("\n\n").filter(|p| !p.trim().is_empty()).collect()
Paragraphs(s) == SelectSeq(Split(s), LAMBDA p : ~TrimIsEmpty(p))

RECURSIVE TrimStart(_)
\* str::trim_start
TrimStart(s) ==
    IF s # <<>> /\ IsWhitespace(Head(s)) THEN TrimStart(Tail(s)) ELSE s

\* str::is_char_boundary(k), k a byte offset counted from 0
IsCharBoundary(s, k) ==
    \/ k = 0
    \/ k = Len(s)
    \/ k < Len(s) /\ s[k + 1] # "E2"

\* A variant of RFindSpaceOr that returns the offset just after the last space.
RFindSpaceOr_After(window, dflt) ==
    LET hits == {i \in 1..Len(window) : window[i] = "SP"}
    IN  IF hits = {} THEN dflt
        ELSE CHOOSE i \in hits : \A j \in hits : j <= i

\* window.rfind(' ').unwrap_or(dflt): the byte offset (from 0) of the last space
RFindSpaceOr(window, dflt) ==
    LET hits == {i \in 1..Len(window) : window[i] = "SP"}
    IN  IF hits = {} THEN dflt
        ELSE (CHOOSE i \in hits : \A j \in hits : j <= i) - 1

RECURSIVE Join(_, _)
\* [String]::join(sep)
Join(ss, sep) ==
    IF ss = <<>> THEN <<>>
    ELSE IF Len(ss) = 1 THEN ss[1]
    ELSE ss[1] \o sep \o Join(Tail(ss), sep)

(***************************************************************************)
(* The chunker, main.rs:130-178.                                           *)
(***************************************************************************)
\* A variant of IsOversized that also force-splits a paragraph of exactly max.
IsOversized_Geq(paragraph, max) == Len(paragraph) >= max

\* main.rs:142
IsOversized(paragraph, max) == Len(paragraph) > max

\* A variant of DoesNotFit that forgets the two bytes of the separator.
DoesNotFit_NoSep(cur, paragraph, max) == Len(cur) + Len(paragraph) > max

\* main.rs:163
DoesNotFit(cur, paragraph, max) == Len(cur) + Len(paragraph) + 2 > max

\* main.rs:170-173
PushParagraph(cur, paragraph) ==
    IF cur # <<>> THEN cur \o Delim \o paragraph ELSE paragraph

\* main.rs:153-158; the slice remaining[..MAX_CHUNK_SIZE] is taken only in the
\* else branch
SplitEnd(rem, max) ==
    IF Len(rem) <= max THEN Len(rem)
    ELSE RFindSpaceOr(Take(rem, max), max)

\* A variant of SplitRest that leaves the whitespace at the head of the rest.
SplitRest_NoTrim(rem, end) == Drop(rem, end)

\* A variant of SplitRest that trims both ends of the rest.
SplitRest_Trim(rem, end) ==
    LET rest == TrimStart(Drop(rem, end))
        keep == {n \in 0..Len(rest) : n = 0 \/ ~IsWhitespace(rest[n])}
    IN  Take(rest, CHOOSE n \in keep : \A m \in keep : m <= n)

\* main.rs:159 and 161: the rest after the cut, with its leading whitespace
\* trimmed
SplitRest(rem, end) == TrimStart(Drop(rem, end))

\* main.rs:157 and 159: the slice and split_at panic on an offset that is
\* not a character boundary
SlicePanics(rem, max) ==
    \/ Len(rem) > max /\ ~IsCharBoundary(rem, max)
    \/ ~IsCharBoundary(rem, SplitEnd(rem, max))

\* A variant of EmptyInput without the early return.
EmptyInput_FallThrough ==
    /\ pc = "start"
    /\ content = <<>>
    /\ paragraphs' = Paragraphs(content)
    /\ chunks' = <<>>
    /\ current_chunk' = <<>>
    /\ pidx' = 1
    /\ pc' = "paragraphs"
    /\ UNCHANGED <<argVars, remaining, callVars, loopVars, endVars>>

\* main.rs:130-133
EmptyInput ==
    /\ pc = "start"
    /\ content = <<>>
    /\ pc' = "done"
    /\ result' = "Ok"
    /\ UNCHANGED <<argVars, chunkVars, callVars, loopVars, out>>

\* main.rs:136-138
SplitParagraphs ==
    /\ pc = "start"
    /\ content # <<>>
    /\ paragraphs' = Paragraphs(content)
    /\ chunks' = <<>>
    /\ current_chunk' = <<>>
    /\ pidx' = 1
    /\ pc' = "paragraphs"
    /\ UNCHANGED <<argVars, remaining, callVars, loopVars, endVars>>

\* main.rs:142-150
OversizedParagraph ==
    /\ pc = "paragraphs"
    /\ pidx <= Len(paragraphs)
    /\ IsOversized(paragraphs[pidx], MAX_CHUNK_SIZE)
    /\ chunks' = IF current_chunk # <<>> THEN Append(chunks, current_chunk)
                 ELSE chunks
    /\ current_chunk' = <<>>
    /\ remaining' = paragraphs[pidx]
    /\ pc' = "split"
    /\ UNCHANGED <<argVars, paragraphs, pidx, callVars, loopVars, endVars>>

\* main.rs:151-161, one iteration of the while loop
SplitPiece ==
    /\ pc = "split"
    /\ remaining # <<>>
    /\ ~SlicePanics(remaining, MAX_CHUNK_SIZE)
    /\ LET end == SplitEnd(remaining, MAX_CHUNK_SIZE)
       IN  /\ chunks' = Append(chunks, Take(remaining, end))
           /\ remaining' = SplitRest(remaining, end)
    /\ UNCHANGED <<argVars, paragraphs, pidx, current_chunk, pc, callVars,
                   loopVars, endVars>>

\* main.rs:157/159, the iteration panics and the process aborts
SplitPanic ==
    /\ pc = "split"
    /\ remaining # <<>>
    /\ SlicePanics(remaining, MAX_CHUNK_SIZE)
    /\ pc' = "panicked"
    /\ result' = "Panic"
    /\ UNCHANGED <<argVars, chunkVars, callVars, loopVars, out>>

\* main.rs:151 and 162, the while loop ends
SplitDone ==
    /\ pc = "split"
    /\ remaining = <<>>
    /\ pidx' = pidx + 1
    /\ pc' = "paragraphs"
    /\ UNCHANGED <<argVars, paragraphs, chunks, current_chunk, remaining,
                   callVars, loopVars, endVars>>

\* main.rs:163-167
FlushAndStart ==
    /\ pc = "paragraphs"
    /\ pidx <= Len(paragraphs)
    /\ ~IsOversized(paragraphs[pidx], MAX_CHUNK_SIZE)
    /\ DoesNotFit(current_chunk, paragraphs[pidx], MAX_CHUNK_SIZE)
    /\ chunks' = Append(chunks, current_chunk)
    /\ current_chunk' = paragraphs[pidx]
    /\ pidx' = pidx + 1
    /\ UNCHANGED <<argVars, paragraphs, remaining, pc, callVars, loopVars,
                   endVars>>

\* main.rs:168-174
AppendParagraph ==
    /\ pc = "paragraphs"
    /\ pidx <= Len(paragraphs)
    /\ ~IsOversized(paragraphs[pidx], MAX_CHUNK_SIZE)
    /\ ~DoesNotFit(current_chunk, paragraphs[pidx], MAX_CHUNK_SIZE)
    /\ current_chunk' = PushParagraph(current_chunk, paragraphs[pidx])
    /\ pidx' = pidx + 1
    /\ UNCHANGED <<argVars, paragraphs, chunks, remaining, pc, callVars,
                   loopVars, endVars>>

\* main.rs:176-178
FinalFlush ==
    /\ pc = "paragraphs"
    /\ pidx > Len(paragraphs)
    /\ chunks' = IF current_chunk # <<>> THEN Append(chunks, current_chunk)
                 ELSE chunks
    /\ pc' = "chunked"
    /\ UNCHANGED <<argVars, paragraphs, pidx, current_chunk, remaining,
                   callVars, loopVars, endVars>>

(***************************************************************************)
(* translate_chunk, main.rs:49-121.                                        *)
(***************************************************************************)
MAX_RETRIES == 3

\* The texts a decoded response can carry.
Translations == {<<"x">>, <<"y">>}

\* The HTTP statuses the service answers with in the model.
Statuses == {200, 301, 400, 503}

\* StatusCode::is_success, main.rs:86
IsSuccess(status) == 200 <= status /\ status <= 299

\* A variant of IsClientError that tests for a server error instead.
IsClientError_ServerError(status) == 500 <= status /\ status <= 599

\* StatusCode::is_client_error, main.rs:105
IsClientError(status) == 400 <= status /\ status <= 499

\* What one attempt can meet: send() fails (kind "send_err"), or a response
\* arrives with a status and a body that cannot be read ("body_err"), is read
\* but is not a TranslationResponse ("bad_json"), or decodes ("json").  The
\* body of a response without a success status is only quoted in a message.
Responses ==
    {[kind |-> "send_err", status |-> 0, text |-> <<>>]}
    \cup {[kind |-> k, status |-> st, text |-> <<>>] :
            k \in {"body_err", "bad_json"}, st \in {c \in Statuses : IsSuccess(c)}}
    \cup {[kind |-> "json", status |-> st, text |-> t] :
            st \in {c \in Statuses : IsSuccess(c)}, t \in Translations}
    \cup {[kind |-> "body", status |-> st, text |-> <<>>] :
            st \in {c \in Statuses : ~IsSuccess(c)}}

NoError == [kind |-> "none", status |-> 0]
NoResult == [tag |-> "none", text |-> <<>>, err |-> NoError]
Ok(t) == [tag |-> "Ok", text |-> t, err |-> NoError]
Err(e) == [tag |-> "Err", text |-> <<>>, err |-> e]

\* The branch of main.rs:77-117 a response takes.
Branch(r) ==
    IF r.kind = "send_err" THEN "send_err"                 \* 79-82
    ELSE IF IsSuccess(r.status)
         THEN IF r.kind = "body_err" THEN "body_err"       \* 89-92
              ELSE IF r.kind = "json" THEN "ok"            \* 96
              ELSE "parse_err"                             \* 97-103
    ELSE IF IsClientError(r.status) THEN "client_err"      \* 105-111
    ELSE "other_status"                                    \* 112-117

\* The error value each failing branch builds.
ErrorOf(r) == [kind |-> Branch(r), status |-> r.status]

\* A variant of RecordError that keeps the first error it was given.
RecordError_KeepFirst(prev, r) == IF prev = NoError THEN ErrorOf(r) ELSE prev

\* main.rs:80, 90 and 115: last_error = Some(..) overwrites the error kept
RecordError(prev, r) == ErrorOf(r)

\* A variant of Continues that also retries after a decoding error.
Continues_AlsoParse(branch) ==
    branch \in {"send_err", "body_err", "other_status", "parse_err"}

\* The branches that end in `continue` or fall through to the next iteration
\* (main.rs:81, 91, 116); the others return (main.rs:96, 102, 111).
Continues(branch) == branch \in {"send_err", "body_err", "other_status"}

\* A variant of Delay that counts the retries from 0.
Delay_FromZero(n) == 30 * 2 ^ (n - 1)

\* main.rs:63, 30 * (1 << attempt) seconds
Delay(n) == 30 * 2 ^ n

\* A variant of InRange that runs one more iteration.
InRange_OneMore(n) == n <= MAX_RETRIES + 1

\* main.rs:60, attempt in 0..=MAX_RETRIES
InRange(n) == n <= MAX_RETRIES

Sleep(why, secs) == [kind |-> why, secs |-> secs, chunk |-> 0]
Post(i) == [kind |-> "post", secs |-> 0, chunk |-> i]

\* main.rs:60-117, one iteration of the retry loop that meets response r on
\* the given branch: the backoff sleep (61-69), the POST (77) and the branch.
Attempt(branch) ==
    /\ InRange(attempt)
    /\ \E r \in Responses :
        /\ Branch(r) = branch
        /\ events' = (IF attempt > 0
                      THEN Append(events, Sleep("backoff", Delay(attempt)))
                      ELSE events) \o <<Post(cidx)>>
        /\ requested' = requested \cup {cidx}
        /\ responses' = Append(responses, r)
        /\ IF branch = "ok"
           THEN /\ call_result' = Ok(r.text)
                /\ answered' = Append(answered, [chunk |-> cidx, text |-> r.text])
                /\ pc' = "returned"
                /\ UNCHANGED <<attempt, last_error>>
           ELSE IF Continues(branch)
           THEN /\ last_error' = RecordError(last_error, r)
                /\ attempt' = attempt + 1
                /\ UNCHANGED <<call_result, pc, answered>>
           ELSE /\ call_result' = Err(ErrorOf(r))
                /\ pc' = "returned"
                /\ UNCHANGED <<attempt, last_error, answered>>
    /\ UNCHANGED <<argVars, chunkVars, cidx, translated_chunks, bar_pos,
                   endVars>>

\* main.rs:77-83
SendFails ==
    /\ pc = "call"
    /\ Attempt("send_err")
\* main.rs:86-93
BodyUnreadable ==
    /\ pc = "call"
    /\ Attempt("body_err")
\* main.rs:95-96
Decoded ==
    /\ pc = "call"
    /\ Attempt("ok")
\* main.rs:97-103
Undecodable ==
    /\ pc = "call"
    /\ Attempt("parse_err")
\* main.rs:105-111
ClientError ==
    /\ pc = "call"
    /\ Attempt("client_err")
\* main.rs:112-117
OtherStatus ==
    /\ pc = "call"
    /\ Attempt("other_status")

\* main.rs:118-120, the loop is over
RetriesExhausted ==
    /\ pc = "call"
    /\ ~InRange(attempt)
    /\ call_result' = Err(IF last_error # NoError THEN last_error
                          ELSE [kind |-> "placeholder", status |-> 0])
    /\ pc' = "returned"
    /\ UNCHANGED <<argVars, chunkVars, attempt, last_error, responses,
                   loopVars, endVars>>

(***************************************************************************)
(* The translation loop and the output, main.rs:180-229.                   *)
(***************************************************************************)
\* main.rs:180-196
StartTranslation ==
    /\ pc = "chunked"
    /\ translated_chunks' = <<>>
    /\ bar_pos' = 0
    /\ cidx' = 1
    /\ pc' = "loop"
    /\ UNCHANGED <<argVars, chunkVars, callVars, events, requested, answered,
                   endVars>>

\* A variant of PaceAndCall that paces only between two requests.
PaceAndCall_NotFirst ==
    /\ pc = "loop"
    /\ cidx <= Len(chunks)
    /\ events' = IF cidx > 1 THEN <<Sleep("pace", 10)>> ELSE <<>>
    /\ attempt' = 0
    /\ last_error' = NoError
    /\ responses' = <<>>
    /\ call_result' = NoResult
    /\ pc' = "call"
    /\ UNCHANGED <<argVars, chunkVars, cidx, translated_chunks, bar_pos,
                   requested, answered, endVars>>

\* main.rs:198-201 and 57-58: the pacing sleep, then translate_chunk is entered
PaceAndCall ==
    /\ pc = "loop"
    /\ cidx <= Len(chunks)
    /\ events' = <<Sleep("pace", 10)>>
    /\ attempt' = 0
    /\ last_error' = NoError
    /\ responses' = <<>>
    /\ call_result' = NoResult
    /\ pc' = "call"
    /\ UNCHANGED <<argVars, chunkVars, cidx, translated_chunks, bar_pos,
                   requested, answered, endVars>>

\* A variant of PushTranslated that puts the new translation in front.
PushTranslated_Front ==
    /\ pc = "returned"
    /\ call_result.tag = "Ok"
    /\ translated_chunks' = <<call_result.text>> \o translated_chunks
    /\ bar_pos' = bar_pos + 1
    /\ cidx' = cidx + 1
    /\ pc' = "loop"
    /\ attempt' = 0
    /\ last_error' = NoError
    /\ responses' = <<>>
    /\ call_result' = NoResult
    /\ events' = <<>>
    /\ UNCHANGED <<argVars, chunkVars, requested, answered, endVars>>

\* main.rs:208-210, translate_chunk returned Ok
PushTranslated ==
    /\ pc = "returned"
    /\ call_result.tag = "Ok"
    /\ translated_chunks' = Append(translated_chunks, call_result.text)
    /\ bar_pos' = bar_pos + 1
    /\ cidx' = cidx + 1
    /\ pc' = "loop"
    \* the locals of the call and of the iteration go out of scope
    /\ attempt' = 0
    /\ last_error' = NoError
    /\ responses' = <<>>
    /\ call_result' = NoResult
    /\ events' = <<>>
    /\ UNCHANGED <<argVars, chunkVars, requested, answered, endVars>>

\* A variant of AbortOnError that gives the chunk up and goes on with the next.
AbortOnError_Skip ==
    /\ pc = "returned"
    /\ call_result.tag = "Err"
    /\ cidx' = cidx + 1
    /\ pc' = "loop"
    /\ UNCHANGED <<argVars, chunkVars, callVars, translated_chunks, bar_pos,
                   events, requested, answered, endVars>>

\* main.rs:208, translate_chunk returned Err and `?` returns it from main
AbortOnError ==
    /\ pc = "returned"
    /\ call_result.tag = "Err"
    /\ result' = "Err"
    /\ pc' = "done"
    /\ UNCHANGED <<argVars, chunkVars, callVars, loopVars, out>>

\* main.rs:213-229
WriteOutput ==
    /\ pc = "loop"
    /\ cidx > Len(chunks)
    /\ out' = Append(out, [to |-> IF output_file THEN "file" ELSE "console",
                           text |-> Join(translated_chunks, Delim)])
    /\ result' = "Ok"
    /\ pc' = "done"
    /\ UNCHANGED <<argVars, chunkVars, callVars, loopVars>>

(***************************************************************************)
(* Initial states: main() after line 129, for every document of at most n  *)
(* characters and every chunk ceiling of the model.                        *)
(***************************************************************************)
Texts(n) == UNION {[1..k -> Chars] : k \in 0..n}

InitWith(n) ==
    /\ MAX_CHUNK_SIZE \in 1..MaxChunkSizeBound
    /\ output_file \in BOOLEAN
    /\ \E t \in Texts(n) : content = Utf8(t)
    /\ paragraphs = <<>>
    /\ pidx = 1
    /\ chunks = <<>>
    /\ current_chunk = <<>>
    /\ remaining = <<>>
    /\ pc = "start"
    /\ cidx = 1
    /\ translated_chunks = <<>>
    /\ bar_pos = 0
    /\ attempt = 0
    /\ last_error = NoError
    /\ call_result = NoResult
    /\ responses = <<>>
    /\ events = <<>>
    /\ requested = {}
    /\ answered = <<>>
    /\ out = <<>>
    /\ result = "Running"

\* The chunker alone, on the larger documents.
ChunkInit == InitWith(MaxChars) /\ output_file = FALSE
ChunkNext ==
    \/ EmptyInput
    \/ SplitParagraphs
    \/ OversizedParagraph
    \/ SplitPiece
    \/ SplitPanic
    \/ SplitDone
    \/ FlushAndStart
    \/ AppendParagraph
    \/ FinalFlush
ChunkSpec == ChunkInit /\ [][ChunkNext]_vars

\* The whole of main(), on the smaller documents.
Init == InitWith(MaxDocChars)
Next ==
    \/ EmptyInput
    \/ SplitParagraphs
    \/ OversizedParagraph
    \/ SplitPiece
    \/ SplitPanic
    \/ SplitDone
    \/ FlushAndStart
    \/ AppendParagraph
    \/ FinalFlush
    \/ StartTranslation
    \/ PaceAndCall
    \/ SendFails
    \/ BodyUnreadable
    \/ Decoded
    \/ Undecodable
    \/ ClientError
    \/ OtherStatus
    \/ RetriesExhausted
    \/ PushTranslated
    \/ AbortOnError
    \/ WriteOutput
Spec == Init /\ [][Next]_vars

(***************************************************************************)
(* Properties of the chunker (checked under ChunkSpec).                    *)
(***************************************************************************)
Last(s) == s[Len(s)]

AllWhitespace(s) == \A i \in 1..Len(s) : IsWhitespace(s[i])

IsPrefix(p, s) == Len(p) <= Len(s) /\ Take(s, Len(p)) = p

RECURSIVE IsSubseq(_, _)
\* a is obtained from b by deleting elements
IsSubseq(a, b) ==
    IF a = <<>> THEN TRUE
    ELSE IF b = <<>> THEN FALSE
    ELSE IF Head(a) = Head(b) THEN IsSubseq(Tail(a), Tail(b))
    ELSE IsSubseq(a, Tail(b))

RECURSIVE Units(_)
\* The "\n\n"-delimited units of a list of chunks, in order.
Units(cs) == IF cs = <<>> THEN <<>> ELSE Split(Head(cs)) \o Units(Tail(cs))

\* The segments emitted so far, the buffer included while it is still open.
Emitted == IF pc = "paragraphs" THEN Append(chunks, current_chunk) ELSE chunks

\* The paragraphs the loop of main.rs:140 has gone through.
Processed == Take(paragraphs, pidx - 1)

NoOversizedParagraph ==
    \A i \in 1..Len(paragraphs) : Len(paragraphs[i]) <= MAX_CHUNK_SIZE

\* C1: every segment the chunking step produces (accumulated chunk,
\* force-split piece, the buffer that is flushed last) is at most
\* MAX_CHUNK_SIZE bytes long.
C1_SegmentsBounded ==
    /\ \A i \in 1..Len(chunks) : Len(chunks[i]) <= MAX_CHUNK_SIZE
    /\ Len(current_chunk) <= MAX_CHUNK_SIZE

\* C1 witness: chunking has finished with a force-split paragraph and a
\* segment of exactly MAX_CHUNK_SIZE bytes.
C1_Witness ==
    /\ pc = "chunked"
    /\ Len(chunks) >= 2
    /\ \E i \in 1..Len(paragraphs) : Len(paragraphs[i]) > MAX_CHUNK_SIZE
    /\ \E i \in 1..Len(chunks) : Len(chunks[i]) = MAX_CHUNK_SIZE

\* C2: when no paragraph is longer than MAX_CHUNK_SIZE, the returned segments
\* joined with "\n\n" are exactly the non-blank paragraphs joined with "\n\n".
C2_JoinReconstructs ==
    (pc = "chunked" /\ NoOversizedParagraph)
        => Join(chunks, Delim) = Join(paragraphs, Delim)

\* C3: a non-blank paragraph of at most MAX_CHUNK_SIZE bytes is never
\* force-split: the split loop is entered only for a longer paragraph, and the
\* paragraphs of at most MAX_CHUNK_SIZE bytes gone through so far are, in
\* order, each one whole "\n\n"-delimited unit of an emitted segment.
C3_SmallParagraphWhole ==
    /\ pc = "split" => Len(paragraphs[pidx]) > MAX_CHUNK_SIZE
    /\ pc \in {"paragraphs", "split", "chunked"} =>
         IsSubseq(SelectSeq(Processed, LAMBDA p : Len(p) <= MAX_CHUNK_SIZE),
                  Units(Emitted))

\* C3 witness: chunking has finished on several paragraphs, one of them of
\* exactly MAX_CHUNK_SIZE bytes and not the first.
C3_Witness ==
    /\ pc = "chunked"
    /\ Len(paragraphs) >= 2
    /\ Len(paragraphs[2]) = MAX_CHUNK_SIZE

\* A step of the split loop that cuts a text longer than MAX_CHUNK_SIZE.
CutStep ==
    /\ pc = "split"
    /\ Len(remaining) > MAX_CHUNK_SIZE
    /\ chunks' # chunks

\* The offset of the cut: the length of the piece pushed last.
CutAt == Len(chunks'[Len(chunks')])

WindowHasWhitespace == \E i \in 1..MAX_CHUNK_SIZE : IsWhitespace(remaining[i])
WindowHasSpace == \E i \in 1..MAX_CHUNK_SIZE : remaining[i] = "SP"

\* The cut at offset k of s separates two non-whitespace bytes.
InsideWord(s, k) ==
    /\ k >= 1
    /\ k < Len(s)
    /\ ~IsWhitespace(s[k])
    /\ ~IsWhitespace(s[k + 1])

\* C4 as stated: when the first MAX_CHUNK_SIZE bytes of the remaining text hold
\* a whitespace character, the cut does not fall inside a word.
C4_CutsAtWhitespace ==
    [][(CutStep /\ WindowHasWhitespace) => ~InsideWord(remaining, CutAt)]_vars

\* C4 amended: when the first MAX_CHUNK_SIZE bytes of the remaining text hold a
\* space (U+0020), the cut falls inside the window immediately before a space;
\* a cut inside a word happens only when the window holds no space.
C4_CutsAtSpace ==
    [][CutStep =>
         /\ WindowHasSpace =>
              (CutAt < MAX_CHUNK_SIZE /\ remaining[CutAt + 1] = "SP")
         /\ InsideWord(remaining, CutAt) => ~WindowHasSpace]_vars

\* C4 witness: the split loop has cut an oversized paragraph immediately
\* before a space of its first MAX_CHUNK_SIZE bytes.
C4_Witness ==
    /\ pc = "split"
    /\ chunks # <<>>
    /\ remaining # <<>>
    /\ Len(Last(chunks)) < MAX_CHUNK_SIZE
    /\ paragraphs[pidx] = Last(chunks) \o <<"SP">> \o remaining

RECURSIVE Reassembles(_, _, _)
\* text is the pieces ps in order, each followed by a (possibly empty) run of
\* whitespace, followed by rem.
Reassembles(ps, text, rem) ==
    IF ps = <<>> THEN text = rem
    ELSE /\ IsPrefix(Head(ps), text)
         /\ \E n \in 0..(Len(text) - Len(Head(ps))) :
              /\ AllWhitespace(SubSeq(text, Len(Head(ps)) + 1, Len(Head(ps)) + n))
              /\ Reassembles(Tail(ps), Drop(text, Len(Head(ps)) + n), rem)

\* C5: throughout the force-split of a paragraph, the pieces pushed so far
\* (the last chunks), each followed by the whitespace trimmed at its cut, and
\* then the remaining text, are exactly the paragraph; when the loop ends the
\* remaining text is empty, so the pieces reconstruct the paragraph.
C5_PiecesReconstruct ==
    pc \in {"split", "panicked"} =>
        \E k \in 0..Len(chunks) :
            Reassembles(SubSeq(chunks, k + 1, Len(chunks)), paragraphs[pidx],
                        remaining)

\* C5 witness: the split loop has ended on the only paragraph, in at least
\* two pieces, and whitespace was trimmed at a cut.
C5_Witness ==
    /\ pc = "split"
    /\ remaining = <<>>
    /\ Len(paragraphs) = 1
    /\ Len(chunks) >= 2
    /\ Len(Join(chunks, <<>>)) < Len(paragraphs[1])

\* C6: the chunker has no error condition: no cut offset falls inside a
\* multi-byte character, so chunking never aborts.
C6_NeverAborts == pc # "panicked"

(***************************************************************************)
(* Properties of translate_chunk (checked under Spec).                     *)
(***************************************************************************)
\* The POSTs and backoff sleeps of the current call, in order.
CallEvents == SelectSeq(events, LAMBDA e : e.kind # "pace")

PostCount == Len(SelectSeq(events, LAMBDA e : e.kind = "post"))

RECURSIVE SumSecs(_)
SumSecs(es) == IF es = <<>> THEN 0 ELSE Head(es).secs + SumSecs(Tail(es))

\* The total backoff wait of the current call.
BackoffWait == SumSecs(SelectSeq(events, LAMBDA e : e.kind = "backoff"))

\* C7: one call of translate_chunk sends at most 4 requests, 1 first attempt
\* and at most MAX_RETRIES = 3 retries, one request per attempt, and once the
\* fourth has been answered the call returns or is about to return through
\* main.rs:120.
C7_AtMostFourRequests ==
    /\ MAX_RETRIES + 1 = 4
    /\ PostCount <= 4
    /\ PostCount = Len(responses)
    /\ (pc = "call" /\ PostCount = 4) => ~InRange(attempt)
    /\ pc = "returned" => call_result.tag \in {"Ok", "Err"}

\* C7 witness: a call has returned after four requests.
C7_Witness ==
    /\ pc = "returned"
    /\ PostCount = 4

\* The sleeps and POSTs of a call that has made n attempts.
ExpectedCallEvents(n) ==
    SubSeq(<<Post(cidx), Sleep("backoff", 60), Post(cidx),
             Sleep("backoff", 120), Post(cidx), Sleep("backoff", 240),
             Post(cidx)>>, 1, 2 * n - 1)

Is4xx(r) == r.kind # "send_err" /\ 400 <= r.status /\ r.status <= 499

\* C9: a 4xx status on any attempt ends the call at once: it is the last
\* response of the call, the POST that met it is the last event (no sleep, no
\* request after it), the attempt counter has not moved on, and the call has
\* returned an error.
C9_ClientErrorIsFinal ==
    \A i \in 1..Len(responses) :
        Is4xx(responses[i]) =>
            /\ i = Len(responses)
            /\ Last(events).kind = "post"
            /\ attempt = i - 1
            /\ pc \in {"returned", "done"}
            /\ call_result = Err([kind |-> "client_err",
                                  status |-> responses[i].status])

\* C9 witness: a retry met a 4xx status and the run has ended with the error
\* while the retry budget was not used up.
C9_Witness ==
    /\ pc = "done"
    /\ result = "Err"
    /\ Len(responses) = 2
    /\ Is4xx(responses[2])

\* C10: a success status whose body was read but does not decode ends the call
\* at once with an error (it is the last response, nothing is sent or slept
\* after it); a success status whose body cannot be read is retried: the loop
\* goes on to the next attempt with that error as last_error, and the call
\* returns on it only through main.rs:120, after the fourth attempt.
C10_DecodeFinalBodyReadRetried ==
    \A i \in 1..Len(responses) :
        /\ (responses[i].kind = "bad_json" /\ IsSuccess(responses[i].status)) =>
              /\ i = Len(responses)
              /\ Last(events).kind = "post"
              /\ attempt = i - 1
              /\ pc \in {"returned", "done"}
              /\ call_result.tag = "Err"
              /\ call_result.err.kind = "parse_err"
        /\ ( /\ responses[i].kind = "body_err"
             /\ IsSuccess(responses[i].status)
             /\ i = Len(responses) ) =>
              /\ attempt = i
              /\ last_error = [kind |-> "body_err",
                               status |-> responses[i].status]
              /\ pc # "call" => (i = MAX_RETRIES + 1 /\ call_result = Err(last_error))

\* C10 witness: the first attempt could not read the body of a success
\* response, the retry read a body that does not decode, and the call failed.
C10_Witness ==
    /\ pc = "returned"
    /\ Len(responses) = 2
    /\ responses[1].kind = "body_err"
    /\ responses[2].kind = "bad_json"
    /\ call_result.tag = "Err"

\* A result after which the loop of translate_chunk goes on: send() failed,
\* the body of a success response could not be read, or the status is neither
\* a success nor a 4xx.
IsRetryableResult(r) ==
    \/ r.kind = "send_err"
    \/ r.kind = "body_err" /\ 200 <= r.status /\ r.status <= 299
    \/ /\ r.kind # "send_err"
       /\ ~(200 <= r.status /\ r.status <= 299)
       /\ ~(400 <= r.status /\ r.status <= 499)

\* C11: within a call every attempt but the last followed a retryable result,
\* and no attempt follows the fourth; when the fourth attempt too ends in a
\* retryable result the call returns Err with the error of that fourth
\* attempt, not the error of an earlier attempt and not the placeholder of
\* main.rs:120.
C11_RetryOnlyAfterRetryable ==
    /\ Len(responses) <= 4
    /\ \A i \in 1..(Len(responses) - 1) : IsRetryableResult(responses[i])
    /\ (pc = "call" /\ responses # <<>>) => IsRetryableResult(Last(responses))
    /\ ( /\ Len(responses) = 4
         /\ IsRetryableResult(responses[4]) )
       => /\ pc = "call" => (~InRange(attempt) /\ last_error = ErrorOf(responses[4]))
          /\ pc # "call" => /\ call_result = Err(ErrorOf(responses[4]))
                            /\ call_result.err.kind # "placeholder"

\* C11 witness: four attempts ended in retryable results, the last one
\* different from the earlier ones, and the call has returned.
C11_Witness ==
    /\ pc = "returned"
    /\ Len(responses) = 4
    /\ \A i \in 1..4 : IsRetryableResult(responses[i])
    /\ \A i \in 1..3 : ErrorOf(responses[i]) # ErrorOf(responses[4])

(***************************************************************************)
(* Properties of the translation loop and the output (checked under Spec). *)
(***************************************************************************)
CallFailed == pc \in {"returned", "done"} /\ call_result.tag = "Err"

\* C12: once the translation of a segment has failed, nothing has been
\* written or printed and no later segment has been requested, and the only
\* step main() takes is to end with the failure: it sends no request, writes
\* no output and translates nothing more.
C12_AbortOnFailure ==
    /\ [](CallFailed =>
            /\ out = <<>>
            /\ \A i \in requested : i <= cidx)
    /\ [][CallFailed =>
            /\ pc' = "done"
            /\ result' = "Err"
            /\ out' = <<>>
            /\ requested' = requested
            /\ translated_chunks' = translated_chunks
            /\ call_result' = call_result]_vars

\* C12 witness: the run has ended with the failure of the first of two
\* segments.
C12_Witness ==
    /\ pc = "done"
    /\ result = "Err"
    /\ call_result.tag = "Err"
    /\ cidx = 1
    /\ Len(chunks) = 2
    /\ requested = {1}
    /\ out = <<>>

RECURSIVE AnsweredText(_)
\* The texts of the answers, in order, with "\n\n" between two of them.
AnsweredText(ans) ==
    IF ans = <<>> THEN <<>>
    ELSE IF Len(ans) = 1 THEN ans[1].text
    ELSE ans[1].text \o <<"NL", "NL">> \o AnsweredText(Tail(ans))

\* C13: when the run ends with every segment translated, the service gave one
\* decoded answer per segment, the i-th for the i-th segment, and the final
\* text, the only output, is these answers' texts in that order with exactly
\* "\n\n" between two of them.
C13_JoinInSegmentOrder ==
    (pc = "done" /\ result = "Ok" /\ content # <<>>) =>
        /\ Len(answered) = Len(chunks)
        /\ \A i \in 1..Len(answered) : answered[i].chunk = i
        /\ Len(translated_chunks) = Len(chunks)
        /\ \A i \in 1..Len(chunks) : translated_chunks[i] = answered[i].text
        /\ Len(out) = 1
        /\ out[1].text = AnsweredText(answered)

\* C13 witness: two segments were translated to different texts and the final
\* text has been output.
C13_Witness ==
    /\ pc = "done"
    /\ result = "Ok"
    /\ Len(chunks) = 2
    /\ Len(answered) = 2
    /\ answered[1].text # answered[2].text
    /\ Len(out) = 1

\* C14: on an empty input file the run ends at once with Ok: no request is
\* sent, no sleep is taken, nothing is chunked and nothing is written or
\* printed as output.
C14_EmptyInputNoOp ==
    content = <<>> =>
        /\ pc \in {"start", "done"}
        /\ pc = "done" => result = "Ok"
        /\ requested = {}
        /\ events = <<>>
        /\ answered = <<>>
        /\ out = <<>>

\* C14 witness: the run on an empty input file has ended.
C14_Witness ==
    /\ content = <<>>
    /\ pc = "done"
    /\ result = "Ok"

\* C15: in every iteration of the translation loop, the first included, the
\* first thing that happens is one pacing sleep of 10 seconds, the first POST
\* for the segment follows it immediately, and the iteration holds no other
\* pacing sleep however many retries the call makes; no POST is sent outside
\* such an iteration.
C15_PaceOncePerSegment ==
    /\ pc \in {"call", "returned"} =>
         /\ events # <<>>
         /\ events[1] = [kind |-> "pace", secs |-> 10, chunk |-> 0]
         /\ Len(SelectSeq(events, LAMBDA e : e.kind = "pace")) = 1
         /\ Len(events) >= 2 => events[2] = [kind |-> "post", secs |-> 0,
                                             chunk |-> cidx]
    /\ \A i \in 1..Len(events) :
         events[i].kind = "post" => (i >= 2 /\ events[i].chunk = cidx)
    /\ \A i \in requested : i <= cidx

\* C15 witness: the call for the second segment has returned after a retry.
C15_Witness ==
    /\ pc = "returned"
    /\ cidx = 2
    /\ PostCount = 2
    /\ Len(events) = 4

\* C16: a document that is one non-blank paragraph of at most MAX_CHUNK_SIZE
\* bytes is chunked into exactly one chunk, the paragraph itself.
C16_SingleParagraphOneChunk ==
    ( /\ pc = "chunked"
      /\ paragraphs = <<content>>
      /\ Len(content) <= MAX_CHUNK_SIZE )
    => chunks = <<content>>

\* C17: segments go through the loop one at a time and in order: the segments
\* for which a request was sent are the translated ones and at most the next
\* one, the one in hand is the next one, and the progress counter equals the
\* number of translated results.
C17_OneSegmentAtATime ==
    /\ \A i \in requested : i <= Len(translated_chunks) + 1
    /\ \A i \in 1..Len(translated_chunks) : i \in requested
    /\ pc \in {"loop", "call", "returned"} => cidx = Len(translated_chunks) + 1
    /\ bar_pos = Len(translated_chunks)

\* C17 witness: the request for the second segment has been sent after the
\* first segment was translated.
C17_Witness ==
    /\ pc = "call"
    /\ requested = {1, 2}
    /\ Len(translated_chunks) = 1
    /\ bar_pos = 1

\* C18: every segment the chunker emits is non-empty.
C18_NoEmptySegment == \A i \in 1..Len(chunks) : chunks[i] # <<>>

\* C19: when the chunker yields no segment the run is a no-op success: no
\* request is sent and nothing is written or printed as output.
C19_NoSegmentsNoOp ==
    (pc = "done" /\ chunks = <<>>) =>
        /\ result = "Ok"
        /\ requested = {}
        /\ out = <<>>

\* C20: every iteration of the force-split loop that does not end the process
\* leaves a strictly shorter remaining text, so the loop ends after at most
\* as many iterations as the paragraph has bytes.
C20_SplitShortens ==
    [][(pc = "split" /\ remaining # <<>> /\ pc' = "split")
         => Len(remaining') < Len(remaining)]_vars

\* C20 witness: the first iteration on a paragraph that begins with a space
\* has cut at offset 0, pushed an empty piece and gone on with a text that is
\* not empty.
C20_Witness ==
    /\ pc = "split"
    /\ chunks # <<>>
    /\ Last(chunks) = <<>>
    /\ paragraphs[pidx][1] = "SP"
    /\ remaining # <<>>
    /\ Len(remaining) < Len(paragraphs[pidx])

=============================================================================
